---- MODULE Spec2Model ----
(***************************************************************************)
(* UNC Tenting: shift derivation (js/schedule.js) and attendance           *)
(* reconciliation (js/main.js, js/db.js, js/admin.js, the two sweep        *)
(* scripts).  Instants are whole minutes since the first CSV row's hour.   *)
(***************************************************************************)
EXTENDS Integers, Sequences, FiniteSets, TLC

\* ------------------------------------------------------------------------
\* Bounds of the model
\* ------------------------------------------------------------------------
\* longest enumerated CSV (rows below the header)
MaxRows == 4
\* the clock runs from 0 to MaxTicks * TickMinutes
MaxTicks == 6
\* rows per POST of a sweep run: 500 in the scripts, scaled to the timetables
\* here (at most two shifts) so that a run can take more than one POST
chunkSize == 1
\* the Next button is followed up to this week index
MaxWeek == 4
MaxSubmits == 2

\* ------------------------------------------------------------------------
\* Program constants
\* ------------------------------------------------------------------------
\* JavaScript null (verifiedAtISO = null, start = null, ...)
Null == -1
\* main.js:93  fifteenMin = 15 * 60 * 1000 ms, here in minutes
fifteenMin == 15
\* sweep script (pre-checking variant): VERIFY_AFTER_MINUTES; GRACE_MS is this in ms
VERIFY_AFTER_MINUTES == 5
GRACE_MS == VERIFY_AFTER_MINUTES
\* config.js ADMIN_NAME
ADMIN_NAME == "secret"
\* config.js MAX_DISTANCE_METERS
MAX_DISTANCE_METERS == 200

\* config.js DAYS_PER_WEEK
DAYS_PER_WEEK == 7

\* the CSV's person columns (header minus "Time")
People == {"Alex"}

\* ------------------------------------------------------------------------
\* Date in the viewer's local frame.  An instant is a count of minutes on the
\* zone's standard-time axis; local wall-clock readings are minutes since the
\* local midnight of day 0.  The zone moves its clocks forward by DstShift at
\* 02:00 on DstStartDay and back at 02:00 (daylight) on DstEndDay.
\* ------------------------------------------------------------------------
MinutesPerDay == 24 * 60
DstShift == 60
DstStartDay == 14
DstEndDay == 22
isDst(t) ==
    /\ t >= DstStartDay * MinutesPerDay + 120
    /\ t < DstEndDay * MinutesPerDay + 120 - DstShift
\* getDate/getHours/...: the wall-clock reading of an instant
instantToLocal(t) == IF isDst(t) THEN t + DstShift ELSE t
\* new Date(y, m, d, h, min) and setDate: the instant of a wall-clock reading.
\* A reading that occurs twice (clocks moved back) is the earlier instant; a
\* reading that is skipped (clocks moved forward) is read with the offset in
\* force before the change, so it lands DstShift later on the wall clock.
localToInstant(local) == IF isDst(local - DstShift) THEN local - DstShift ELSE local
\* d.setDate(d.getDate() + days)
setDate(t, days) == localToInstant(instantToLocal(t) + days * MinutesPerDay)

\* getWeekBounds(anchorDate, weekIndex)
getWeekBounds(anchor, index) ==
    LET start == setDate(anchor, index * DAYS_PER_WEEK)
        end == setDate(start, DAYS_PER_WEEK)
    IN  [start |-> start, end |-> end]

\* filterShiftsInRange(shifts, rangeStart, rangeEnd)
filterShiftsInRange(ss, rangeStart, rangeEnd) ==
    SelectSeq(ss, LAMBDA s : s.end > rangeStart /\ s.start < rangeEnd)

\* ------------------------------------------------------------------------
\* schedule.js: the timeline parser and the shift extractor
\* ------------------------------------------------------------------------
\* A Time cell: a well-formed "M/D/YYYY H:MM:SS" text, given by the minute and
\* the second it denotes, or a text the parser rejects.
BadCell == [ok |-> FALSE, minute |-> 0, second |-> 0]
TimeCells ==
    { [ok |-> TRUE, minute |-> 0, second |-> 0],
      [ok |-> TRUE, minute |-> 5, second |-> 0],
      [ok |-> TRUE, minute |-> 5, second |-> 30],
      [ok |-> TRUE, minute |-> 10, second |-> 0],
      [ok |-> TRUE, minute |-> 15, second |-> 0],
      [ok |-> TRUE, minute |-> DAYS_PER_WEEK * MinutesPerDay, second |-> 0],
      BadCell }
\* A person cell: only "TRUE" (after trim, upper-casing) counts as on.
PersonCells == {"TRUE", "FALSE"}
Rows == [Time : TimeCells, cell : [People -> PersonCells]]

\* parseLocalTimeToDate: null for a text it cannot split; otherwise
\* new Date(year, month - 1, day, hour, minute): the seconds are not read.
parseLocalTimeToDate(timeStr) ==
    IF ~timeStr.ok THEN Null ELSE localToInstant(timeStr.minute)

\* rows.map(r => ...): null for a row whose time is rejected, else {time, flags}
NullSample == [time |-> Null, flags |-> [p \in People |-> FALSE], isNull |-> TRUE]
mapRow(r) ==
    LET t == parseLocalTimeToDate(r.Time)
    IN  IF t = Null THEN NullSample
        ELSE [time |-> t,
              flags |-> [p \in People |-> r.cell[p] = "TRUE"],
              isNull |-> FALSE]

\* Array.prototype.sort((a, b) => a.time - b.time): stable, ascending by time
RECURSIVE insertSorted(_, _)
insertSorted(sorted, x) ==
    IF sorted = <<>> THEN <<x>>
    ELSE IF sorted[Len(sorted)].time <= x.time THEN Append(sorted, x)
    ELSE Append(insertSorted(SubSeq(sorted, 1, Len(sorted) - 1), x), sorted[Len(sorted)])

RECURSIVE sortByTime(_)
sortByTime(samples) ==
    IF samples = <<>> THEN <<>>
    ELSE insertSorted(sortByTime(SubSeq(samples, 1, Len(samples) - 1)), samples[Len(samples)])

\* loadScheduleCSV: throws on an empty table; the comparator dereferences a null
\* sample (TypeError) as soon as two samples are compared.
loadScheduleCSV(rows) ==
    LET mapped == [i \in 1..Len(rows) |-> mapRow(rows[i])]
    IN  IF Len(rows) = 0 THEN [ok |-> FALSE, timeline |-> <<>>]
        ELSE IF Len(rows) >= 2 /\ \E i \in 1..Len(rows) : mapped[i].isNull
             THEN [ok |-> FALSE, timeline |-> <<>>]
        ELSE [ok |-> TRUE, timeline |-> sortByTime(mapped)]

\* buildShiftsForPerson's loop: i is the 1-based index of cur
\* a plausible slip: the run still open after the loop is not closed
RECURSIVE buildLoopNoTrailingClose(_, _, _, _, _, _)
buildLoopNoTrailingClose(timeline, person, i, inShift, start, shifts) ==
    IF i > Len(timeline) - 1
    THEN shifts
    ELSE LET cur == timeline[i]
             next == timeline[i + 1]
             isOn == cur.flags[person]
             opened == ~inShift /\ isOn
             inShift1 == inShift \/ isOn
             start1 == IF opened THEN cur.time ELSE start
             nextIsOn == next.flags[person]
         IN  IF inShift1 /\ ~nextIsOn
             THEN buildLoopNoTrailingClose(timeline, person, i + 1, FALSE, Null,
                            Append(shifts, [person |-> person, start |-> start1,
                                            end |-> next.time]))
             ELSE buildLoopNoTrailingClose(timeline, person, i + 1, inShift1,
                                           start1, shifts)

RECURSIVE buildLoop(_, _, _, _, _, _)
buildLoop(timeline, person, i, inShift, start, shifts) ==
    IF i > Len(timeline) - 1
    THEN IF inShift
         THEN Append(shifts, [person |-> person, start |-> start,
                              end |-> timeline[Len(timeline)].time])
         ELSE shifts
    ELSE LET cur == timeline[i]
             next == timeline[i + 1]
             isOn == cur.flags[person]
             opened == ~inShift /\ isOn
             inShift1 == inShift \/ isOn
             start1 == IF opened THEN cur.time ELSE start
             nextIsOn == next.flags[person]
         IN  IF inShift1 /\ ~nextIsOn
             THEN buildLoop(timeline, person, i + 1, FALSE, Null,
                            Append(shifts, [person |-> person, start |-> start1,
                                            end |-> next.time]))
             ELSE buildLoop(timeline, person, i + 1, inShift1, start1, shifts)

\* a plausible slip: a run is closed at its last true sample's own instant
RECURSIVE buildLoopEndAtLastTrue(_, _, _, _, _, _)
buildLoopEndAtLastTrue(timeline, person, i, inShift, start, shifts) ==
    IF i > Len(timeline) - 1
    THEN IF inShift
         THEN Append(shifts, [person |-> person, start |-> start,
                              end |-> timeline[Len(timeline)].time])
         ELSE shifts
    ELSE LET cur == timeline[i]
             next == timeline[i + 1]
             isOn == cur.flags[person]
             opened == ~inShift /\ isOn
             inShift1 == inShift \/ isOn
             start1 == IF opened THEN cur.time ELSE start
             nextIsOn == next.flags[person]
         IN  IF inShift1 /\ ~nextIsOn
             THEN buildLoopEndAtLastTrue(timeline, person, i + 1, FALSE, Null,
                            Append(shifts, [person |-> person, start |-> start1,
                                            end |-> cur.time]))
             ELSE buildLoopEndAtLastTrue(timeline, person, i + 1, inShift1, start1, shifts)

buildShiftsEndAtLastTrue(timeline, person) ==
    IF Len(timeline) < 2 THEN <<>>
    ELSE buildLoopEndAtLastTrue(timeline, person, 1, FALSE, Null, <<>>)

buildShiftsForPerson(timeline, person) ==
    IF Len(timeline) < 2 THEN <<>>
    ELSE buildLoop(timeline, person, 1, FALSE, Null, <<>>)

\* The sweep scripts' own reading of the timetable.  Their parseLocalTimeToDate
\* is new Date(timeStr): the seconds of the cell are kept, so their instants are
\* counted in seconds here (the runner is taken to be in the client's zone).
SecondsPerMinute == 60
sweepParseLocalTimeToDate(timeStr) ==
    IF ~timeStr.ok THEN Null
    ELSE localToInstant(timeStr.minute) * SecondsPerMinute + timeStr.second

\* main: rows.map(...).sort((a, b) => a.time - b.time); no row is dropped
sweepTimeline(rs) ==
    sortByTime([i \in 1..Len(rs) |->
                  [time |-> sweepParseLocalTimeToDate(rs[i].Time),
                   flags |-> [p \in People |-> rs[i].cell[p] = "TRUE"],
                   isNull |-> FALSE]])

\* the scripts' copy of buildShiftsForPerson, and main's allShifts
sweepBuildShiftsForPerson(timeline, person) == buildShiftsForPerson(timeline, person)
sweepAllShifts(rs) == sweepBuildShiftsForPerson(sweepTimeline(rs), "Alex")

\* ------------------------------------------------------------------------
\* Timetables (data/schedule.csv) the reconciler is run against
\* ------------------------------------------------------------------------
csvRow(m, v) ==
    [Time |-> [ok |-> TRUE, minute |-> m, second |-> 0], cell |-> [p \in People |-> v]]
\* one shift, 20..25: the 15-minute window opens after the clock starts
OneShiftRows ==
    << csvRow(0, "FALSE"), csvRow(20, "TRUE"), csvRow(25, "FALSE") >>
\* two shifts, 5..10 and 15..20
TwoShiftRows ==
    << csvRow(0, "FALSE"), csvRow(5, "TRUE"), csvRow(10, "FALSE"),
       csvRow(15, "TRUE"), csvRow(20, "FALSE") >>
\* the documented example: flags F,T,T,F,T,F at t0..t5
ExampleRows ==
    << csvRow(0, "FALSE"), csvRow(5, "TRUE"), csvRow(10, "TRUE"),
       csvRow(15, "FALSE"), csvRow(20, "TRUE"), csvRow(25, "FALSE") >>

\* keyFor (main.js) and shiftKey (sweep): `${person}__${startISO}__${endISO}`;
\* toISOString is one-to-one on instants, so the instant stands for its text.
keyFor(person, startISO, endISO) == <<person, startISO, endISO>>
shiftKey(person, startISO, endISO) == <<person, startISO, endISO>>
keyOf(s) == keyFor(s.person, s.start, s.end)
keysOf(ss) == { keyOf(ss[i]) : i \in 1..Len(ss) }

\* ------------------------------------------------------------------------
\* db.js: the attendance table
\* ------------------------------------------------------------------------
\* no row for the key
Absent ==
    [status |-> "unrecorded", verified_at |-> Null, overridden |-> FALSE,
     override_by |-> "", override_at |-> Null]

\* upsertAttendance's payload: every column is named
upsertPayload(status, verifiedAtISO, overridden, overrideBy, overrideAtISO) ==
    [status |-> status, verified_at |-> verifiedAtISO, overridden |-> overridden,
     override_by |-> overrideBy, override_at |-> overrideAtISO]

\* upsertAttendance: .upsert(payload, {onConflict: "person,shift_start,shift_end"})
\* inserts the row or, on conflict, replaces every column of the stored row.
upsertAttendance(st, key, payload) ==
    [st EXCEPT ![key] = payload]

\* a plausible slip: the sweep's rows also carry a verified_at column, set to
\* the shift's start
mergeDuplicatesWithTimestamp(st, keys) ==
    [k \in DOMAIN st |->
        IF k \notin keys THEN st[k]
        ELSE IF st[k] = Absent
             THEN [Absent EXCEPT !.status = "missed", !.verified_at = k[2]]
        ELSE [st[k] EXCEPT !.status = "missed", !.verified_at = k[2]]]

\* the sweep's POST with Prefer: resolution=merge-duplicates: its rows carry
\* person, shift_start, shift_end and status only, so a conflict rewrites
\* status and keeps the other columns; an insert takes the column defaults.
mergeDuplicates(st, keys) ==
    [k \in DOMAIN st |->
        IF k \notin keys THEN st[k]
        ELSE IF st[k] = Absent THEN [Absent EXCEPT !.status = "missed"]
        ELSE [st[k] EXCEPT !.status = "missed"]]

\* overrideMissedToVerified's payload
overridePayload(adminName, nowISO) ==
    upsertPayload("verified", nowISO, TRUE, adminName, nowISO)

\* ------------------------------------------------------------------------
\* geo.js
\* ------------------------------------------------------------------------
\* what getCurrentPosition can give: a fresh reading at some distance (meters)
\* from TARGET_COORD, or a rejection (no sensor, denied, timeout)
Distances == {50, MAX_DISTANCE_METERS, 250}
LocationError == 0 - 1
Readings == Distances \cup {LocationError}

\* a plausible slip: the limit is taken in kilometres
isCloseEnoughInKilometres(dist) ==
    [ok |-> dist <= MAX_DISTANCE_METERS * 1000, distMeters |-> dist]

\* isCloseEnoughToTarget on a reading: ok = dist <= MAX_DISTANCE_METERS
isCloseEnoughToTarget(dist) ==
    [ok |-> dist <= MAX_DISTANCE_METERS, distMeters |-> dist]

\* ------------------------------------------------------------------------
\* State
\* ------------------------------------------------------------------------
Sessions == {"s1", "s2"}
AdminSessions == {"a1"}
\* the pages of two people logged in under the admin name
AdminPages == {"a1", "a2"}
NoKey == <<"", Null, Null>>

VARIABLES
    rows,           \* the CSV rows handed to loadScheduleCSV
    loaded,         \* its result: [ok, timeline]
    shifts,         \* buildShiftsForPerson's result
    xpc,            \* "rows" | "loaded" | "failed" | "built"
    anchorDate,     \* main.js anchorDate: the first sample's instant (Null: not set)
    weekIndex,      \* session -> main.js weekIndex of that page
    weekBounds,     \* session -> the {start, end} its last render displayed
    weekListeners,  \* session -> times wireWeekButtons has run on that page
    now,            \* the clock, minutes
    store,          \* attendance table: key -> row (Absent: none)
    loggedIn,       \* session -> loginAs has run
    attendanceMap,  \* session -> key -> status of the entry ("unrecorded": none)
    toMarkMissed,   \* session -> shifts still to write in recordMissedShiftsIfNeeded
    verifyButtons,  \* session -> keys with a Verify button on the page
    verifying,      \* session -> key of the onVerifyClick awaiting, or NoKey
    toast,          \* session -> the check-in toast on the page: "" (none) | "info" |
                    \*   "notClose" | "failed" | "success"
    failedMissed,   \* session -> keys whose missed write failed on this page
                    \*   (console.warn) and that its map still has no entry for
    adminList,      \* admin session -> keys listed with an Override button
    sweepPc,        \* "idle" | "read" | "write" | "done" | "failed"
    sweepVariant,   \* "precheck" | "blind": which script is running / ran last
    sweepNow,       \* the run's `now`
    sweepHasRead,   \* the run has done its bulk read of existing records
    sweepExisting,  \* existingKeys: the keys that read returned
    sweepPayload,   \* rows of the payload not yet POSTed
    sweepSent,      \* rows POSTed by this run so far
    sweepRepeat,    \* this run follows a completed run of the same script, same clock
    othersWrote     \* a client or admin wrote the table since this run began

vars ==
    <<rows, loaded, shifts, xpc, anchorDate, weekIndex, weekBounds, weekListeners,
      now, store, loggedIn, attendanceMap,
      toMarkMissed, verifyButtons, verifying, toast, failedMissed,
      adminList, sweepPc, sweepVariant, sweepNow, sweepHasRead, sweepExisting, sweepPayload,
      sweepSent, sweepRepeat, othersWrote>>
weekVars == <<anchorDate, weekIndex, weekBounds, weekListeners>>
extractVars == <<rows, loaded, shifts, xpc, weekVars>>
sessionVars == <<loggedIn, attendanceMap, toMarkMissed, verifyButtons, verifying, toast,
                 failedMissed>>
sweepVars ==
    <<sweepPc, sweepVariant, sweepNow, sweepHasRead, sweepExisting, sweepPayload,
      sweepSent, sweepRepeat>>
reconcilerVars == <<now, store, sessionVars, adminList, sweepVars, othersWrote>>

TickMinutes == VERIFY_AFTER_MINUTES
MaxTime == MaxTicks * TickMinutes

\* the keys of the loaded timetable's shifts
Keys == keysOf(shifts)
\* allShifts of the sweep scripts: every person's shifts (one person here)
allShifts == shifts
\* shiftsForUser of a logged-in session (currentName is the one person)
shiftsForUser == shifts

\* the reconciler before anything has run, for the shifts ss
ReconcilerInit(ss) ==
    /\ now = 0
    /\ store = [k \in keysOf(ss) |-> Absent]
    /\ loggedIn = [s \in Sessions |-> FALSE]
    /\ attendanceMap = [s \in Sessions |-> [k \in keysOf(ss) |-> "unrecorded"]]
    /\ toMarkMissed = [s \in Sessions |-> <<>>]
    /\ verifyButtons = [s \in Sessions |-> {}]
    /\ verifying = [s \in Sessions |-> NoKey]
    /\ toast = [s \in Sessions |-> ""]
    /\ failedMissed = [s \in Sessions |-> {}]
    /\ adminList = [a \in AdminPages |-> {}]
    /\ sweepPc = "idle"
    /\ sweepVariant = "precheck"
    /\ sweepNow = 0
    /\ sweepHasRead = FALSE
    /\ sweepExisting = {}
    /\ sweepPayload = <<>>
    /\ sweepSent = 0
    /\ sweepRepeat = FALSE
    /\ othersWrote = FALSE

\* the timetable r loaded and every person's shifts built
ScheduleInit(r) ==
    /\ rows = r
    /\ loaded = loadScheduleCSV(r)
    /\ shifts = buildShiftsForPerson(loadScheduleCSV(r).timeline, "Alex")
    /\ xpc = "built"
    /\ anchorDate = loadScheduleCSV(r).timeline[1].time
    /\ weekIndex = [s \in Sessions |-> 0]
    /\ weekListeners = [s \in Sessions |-> 0]
    /\ weekBounds =
          [s \in Sessions |-> getWeekBounds(loadScheduleCSV(r).timeline[1].time, 0)]
    /\ ReconcilerInit(buildShiftsForPerson(loadScheduleCSV(r).timeline, "Alex"))

\* the clock moves on; a toast is taken off the page 5 seconds after it is shown
Tick ==
    /\ now < MaxTime
    /\ now' = now + TickMinutes
    /\ toast' = [s \in Sessions |-> ""]
    /\ UNCHANGED <<extractVars, store, loggedIn, attendanceMap, toMarkMissed,
                   verifyButtons, verifying, failedMissed, adminList, sweepVars,
                   othersWrote>>


\* ------------------------------------------------------------------------
\* schedule.js as steps: load the CSV, then build one person's shifts
\* ------------------------------------------------------------------------
RowSeqs == UNION { [1..n -> Rows] : n \in 0..MaxRows } \cup {ExampleRows}

InitShifts ==
    /\ rows \in RowSeqs
    /\ loaded = [ok |-> FALSE, timeline |-> <<>>]
    /\ shifts = <<>>
    /\ xpc = "rows"
    /\ anchorDate = Null
    /\ weekIndex = [s \in Sessions |-> 0]
    /\ weekListeners = [s \in Sessions |-> 0]
    /\ weekBounds = [s \in Sessions |-> [start |-> Null, end |-> Null]]
    /\ ReconcilerInit(<<>>)

LoadCSV ==
    /\ xpc = "rows"
    /\ loadScheduleCSV(rows).ok
    /\ loaded' = loadScheduleCSV(rows)
    /\ xpc' = "loaded"
    /\ UNCHANGED <<rows, shifts, weekVars, reconcilerVars>>

LoadCSVThrows ==
    /\ xpc = "rows"
    /\ ~loadScheduleCSV(rows).ok
    /\ loaded' = loadScheduleCSV(rows)
    /\ xpc' = "failed"
    /\ UNCHANGED <<rows, shifts, weekVars, reconcilerVars>>

\* loginAs: shiftsForUser = buildShiftsForPerson(schedule.timeline, currentName)
BuildShifts ==
    /\ xpc = "loaded"
    /\ shifts' = buildShiftsForPerson(loaded.timeline, "Alex")
    /\ xpc' = "built"
    /\ store' = [k \in keysOf(shifts') |-> Absent]
    /\ attendanceMap' = [s \in Sessions |-> [k \in keysOf(shifts') |-> "unrecorded"]]
    /\ UNCHANGED <<failedMissed, rows, loaded, weekVars, now, loggedIn, toMarkMissed,
                   verifyButtons, verifying, toast, adminList,
                   sweepVars, othersWrote>>

NextShifts ==
    \/ LoadCSV
    \/ LoadCSVThrows
    \/ BuildShifts

SpecShifts == InitShifts /\ [][NextShifts]_vars

\* ------------------------------------------------------------------------
\* main.js: the interactive client
\* ------------------------------------------------------------------------
\* recordMissedShiftsIfNeeded's filter: started and no entry in the map
\* a plausible slip: "started" read as strictly before now
missedFilterStrictlyStarted(amap, t) ==
    SelectSeq(shiftsForUser, LAMBDA s : s.start < t /\ amap[keyOf(s)] = "unrecorded")

missedFilter(amap, t) ==
    SelectSeq(shiftsForUser, LAMBDA s : s.start <= t /\ amap[keyOf(s)] = "unrecorded")

\* computeVerifiableShifts: not verified in the map and 0 < start - now <= 15 min
computeVerifiableShifts(amap, t) ==
    { keyOf(shiftsForUser[i]) : i \in
        { j \in 1..Len(shiftsForUser) :
            /\ amap[keyOf(shiftsForUser[j])] # "verified"
            /\ shiftsForUser[j].start - t <= fifteenMin
            /\ shiftsForUser[j].start - t > 0 } }

\* buildAttendanceMap over fetchAttendanceForPerson's rows
buildAttendanceMap(st) == [k \in DOMAIN st |-> st[k].status]

\* renderCurrentWeek up to its first await: with nothing to mark it runs through
\* and re-creates the Verify buttons; otherwise the loop of writes begins.
\* A render asked for while one is still writing is merged into it.
renderStart(s, amap) ==
    IF toMarkMissed[s] # <<>>
    THEN UNCHANGED <<toMarkMissed, verifyButtons>>
    ELSE LET todo == missedFilter(amap, now)
         IN  /\ toMarkMissed' = [toMarkMissed EXCEPT ![s] = todo]
             /\ verifyButtons' =
                  IF todo = <<>>
                  THEN [verifyButtons EXCEPT ![s] = computeVerifiableShifts(amap, now)]
                  ELSE verifyButtons

\* the rest of renderCurrentWeek once the loop of writes is over
renderFinish(s, amap, rest) ==
    verifyButtons' =
        IF rest = <<>>
        THEN [verifyButtons EXCEPT ![s] = computeVerifiableShifts(amap, now)]
        ELSE verifyButtons

\* loginAs: fetchAttendanceForPerson, buildAttendanceMap, wireWeekButtons,
\* first render
loginAs(s) ==
    /\ loggedIn' = [loggedIn EXCEPT ![s] = TRUE]
    /\ attendanceMap' = [attendanceMap EXCEPT ![s] = buildAttendanceMap(store)]
    /\ weekListeners' = [weekListeners EXCEPT ![s] = weekListeners[s] + 1]
    /\ weekBounds' = [weekBounds EXCEPT ![s] = getWeekBounds(anchorDate, weekIndex[s])]
    /\ renderStart(s, buildAttendanceMap(store))
    /\ failedMissed' = [failedMissed EXCEPT ![s] = {}]
    /\ UNCHANGED <<rows, loaded, shifts, xpc, anchorDate, weekIndex,
                   now, store, verifying, toast, adminList, sweepVars, othersWrote>>

\* the login form submitted (or the saved name found by init)
Login(s) ==
    /\ ~loggedIn[s]
    /\ loginAs(s)

\* logout: clearName(); location.reload() - the page's state is gone
Reload(s) ==
    /\ loggedIn[s]
    /\ loggedIn' = [loggedIn EXCEPT ![s] = FALSE]
    /\ attendanceMap' = [attendanceMap EXCEPT ![s] = [k \in Keys |-> "unrecorded"]]
    /\ toMarkMissed' = [toMarkMissed EXCEPT ![s] = <<>>]
    /\ verifyButtons' = [verifyButtons EXCEPT ![s] = {}]
    /\ verifying' = [verifying EXCEPT ![s] = NoKey]
    /\ toast' = [toast EXCEPT ![s] = ""]
    /\ failedMissed' = [failedMissed EXCEPT ![s] = {}]
    /\ weekIndex' = [weekIndex EXCEPT ![s] = 0]
    /\ weekListeners' = [weekListeners EXCEPT ![s] = 0]
    /\ UNCHANGED <<rows, loaded, shifts, xpc, anchorDate, weekBounds,
                   now, store, adminList, sweepVars, othersWrote>>

\* the 30-second timer (or a week button): renderCurrentWeek
RenderTimer(s) ==
    /\ loggedIn[s]
    /\ toMarkMissed[s] = <<>>
    /\ renderStart(s, attendanceMap[s])
    /\ UNCHANGED <<failedMissed, extractVars, now, store, loggedIn, attendanceMap, verifying,
                   toast, adminList,
                   sweepVars, othersWrote>>

\* one pass of recordMissedShiftsIfNeeded's loop: the upsert succeeds
MarkMissedOk(s) ==
    /\ toMarkMissed[s] # <<>>
    /\ LET k == keyOf(Head(toMarkMissed[s]))
           st == upsertAttendance(store, k, upsertPayload("missed", Null, FALSE, "", Null))
           amap == [attendanceMap[s] EXCEPT ![k] = st[k].status]
           rest == Tail(toMarkMissed[s])
       IN  /\ store' = st
           /\ attendanceMap' = [attendanceMap EXCEPT ![s] = amap]
           /\ toMarkMissed' = [toMarkMissed EXCEPT ![s] = rest]
           /\ renderFinish(s, amap, rest)
    /\ othersWrote' = TRUE
    /\ failedMissed' = [failedMissed EXCEPT ![s] = failedMissed[s] \ {keyOf(Head(toMarkMissed[s]))}]
    /\ UNCHANGED <<extractVars, now, loggedIn, verifying, toast, adminList,
                   sweepVars>>

\* the upsert throws: caught, warned, the loop goes on
MarkMissedFail(s) ==
    /\ toMarkMissed[s] # <<>>
    /\ LET rest == Tail(toMarkMissed[s])
       IN  /\ toMarkMissed' = [toMarkMissed EXCEPT ![s] = rest]
           /\ renderFinish(s, attendanceMap[s], rest)
    /\ failedMissed' = [failedMissed EXCEPT ![s] = failedMissed[s] \cup {keyOf(Head(toMarkMissed[s]))}]
    /\ UNCHANGED <<extractVars, now, store, loggedIn, attendanceMap, verifying,
                   toast, adminList,
                   sweepVars, othersWrote>>

\* a click on a Verify button: onVerifyClick up to await isCloseEnoughToTarget()
VerifyClick(s, k) ==
    /\ loggedIn[s]
    /\ k \in verifyButtons[s]
    /\ verifying[s] = NoKey
    /\ verifying' = [verifying EXCEPT ![s] = k]
    /\ toast' = [toast EXCEPT ![s] = "info"]
    /\ UNCHANGED <<failedMissed, extractVars, now, store, loggedIn, attendanceMap, toMarkMissed,
                   verifyButtons, adminList, sweepVars, othersWrote>>

\* the location read rejects, or the reading is too far: toast, nothing written
VerifyRejected(s, reading) ==
    /\ verifying[s] # NoKey
    /\ reading = LocationError \/ ~isCloseEnoughToTarget(reading).ok
    /\ verifying' = [verifying EXCEPT ![s] = NoKey]
    /\ toast' = [toast EXCEPT ![s] =
                   IF reading = LocationError THEN "failed" ELSE "notClose"]
    /\ UNCHANGED <<failedMissed, extractVars, now, store, loggedIn, attendanceMap, toMarkMissed,
                   verifyButtons, adminList, sweepVars, othersWrote>>

\* close enough: upsert verified with verified_at = now, then renderCurrentWeek
VerifyOk(s, reading) ==
    /\ verifying[s] # NoKey
    /\ reading # LocationError
    /\ isCloseEnoughToTarget(reading).ok
    /\ LET k == verifying[s]
           st == upsertAttendance(store, k, upsertPayload("verified", now, FALSE, "", Null))
           amap == [attendanceMap[s] EXCEPT ![k] = st[k].status]
       IN  /\ store' = st
           /\ attendanceMap' = [attendanceMap EXCEPT ![s] = amap]
           /\ renderStart(s, amap)
    /\ verifying' = [verifying EXCEPT ![s] = NoKey]
    /\ othersWrote' = TRUE
    /\ toast' = [toast EXCEPT ![s] = "success"]
    /\ failedMissed' = [failedMissed EXCEPT ![s] = failedMissed[s] \ {verifying[s]}]
    /\ UNCHANGED <<extractVars, now, loggedIn, adminList, sweepVars>>

\* close enough, but the upsert throws: caught, toast
VerifyUpsertFail(s, reading) ==
    /\ verifying[s] # NoKey
    /\ reading # LocationError
    /\ isCloseEnoughToTarget(reading).ok
    /\ verifying' = [verifying EXCEPT ![s] = NoKey]
    /\ toast' = [toast EXCEPT ![s] = "failed"]
    /\ UNCHANGED <<failedMissed, extractVars, now, store, loggedIn, attendanceMap, toMarkMissed,
                   verifyButtons, adminList, sweepVars, othersWrote>>

\* ------------------------------------------------------------------------
\* main.js: week paging
\* ------------------------------------------------------------------------
\* the first row's Time cell of the timetables paged through
AnchorDays == {0, 1, 14}
AnchorTimes == {0, 60, 90, 120, 150, 180, 720, 1380}
Anchors ==
    { parseLocalTimeToDate([ok |-> TRUE, minute |-> d * MinutesPerDay + m, second |-> 0]) :
        d \in AnchorDays, m \in AnchorTimes }

\* pages open on a timetable in which the person has no shift
InitWeeks ==
    /\ rows = <<>>
    /\ loaded = [ok |-> FALSE, timeline |-> <<>>]
    /\ shifts = <<>>
    /\ xpc = "built"
    /\ anchorDate \in Anchors
    /\ weekIndex = [s \in Sessions |-> 0]
    /\ weekListeners = [s \in Sessions |-> 0]
    /\ weekBounds = [s \in Sessions |-> getWeekBounds(anchorDate, 0)]
    /\ ReconcilerInit(<<>>)

\* the login form submitted a second time while the first loginAs is still
\* awaiting its fetch (the form is hidden only after it): loginAs runs again on
\* the same page and wireWeekButtons adds a second pair of listeners
LoginResubmit(s) ==
    /\ loggedIn[s]
    /\ weekListeners[s] < MaxSubmits
    /\ loginAs(s)

\* nextWeekBtn: every registered listener does weekIndex = weekIndex + 1, then
\* renderCurrentWeek
NextWeekClick(s) ==
    /\ loggedIn[s]
    /\ toMarkMissed[s] = <<>>
    /\ weekIndex[s] + weekListeners[s] <= MaxWeek
    /\ LET i == weekIndex[s] + weekListeners[s]
       IN  /\ weekIndex' = [weekIndex EXCEPT ![s] = i]
           /\ weekBounds' = [weekBounds EXCEPT ![s] = getWeekBounds(anchorDate, i)]
    /\ renderStart(s, attendanceMap[s])
    /\ UNCHANGED <<failedMissed, rows, loaded, shifts, xpc, anchorDate, weekListeners,
                   now, store, loggedIn, attendanceMap, verifying, toast, adminList,
                   sweepVars, othersWrote>>

\* prevWeekBtn: every registered listener does
\* weekIndex = Math.max(0, weekIndex - 1), then renderCurrentWeek
RECURSIVE prevWeek(_, _)
prevWeek(i, n) ==
    IF n = 0 THEN i
    ELSE prevWeek(IF i - 1 > 0 THEN i - 1 ELSE 0, n - 1)

PrevWeekClick(s) ==
    /\ loggedIn[s]
    /\ toMarkMissed[s] = <<>>
    /\ LET i == prevWeek(weekIndex[s], weekListeners[s])
       IN  /\ weekIndex' = [weekIndex EXCEPT ![s] = i]
           /\ weekBounds' = [weekBounds EXCEPT ![s] = getWeekBounds(anchorDate, i)]
    /\ renderStart(s, attendanceMap[s])
    /\ UNCHANGED <<failedMissed, rows, loaded, shifts, xpc, anchorDate, weekListeners,
                   now, store, loggedIn, attendanceMap, verifying, toast, adminList,
                   sweepVars, othersWrote>>

NextWeeks ==
    \/ \E s \in Sessions : Login(s)
    \/ \E s \in Sessions : LoginResubmit(s)
    \/ \E s \in Sessions : Reload(s)
    \/ \E s \in Sessions : NextWeekClick(s)
    \/ \E s \in Sessions : PrevWeekClick(s)
SpecWeeks == InitWeeks /\ [][NextWeeks]_vars

\* ------------------------------------------------------------------------
\* admin.js
\* ------------------------------------------------------------------------
\* fetchMissedShiftsNewestFirst: status = missed (the limit of 300 is not reached)
fetchMissedShiftsNewestFirst(st) == { k \in DOMAIN st : st[k].status = "missed" }

\* renderAdminList: on login and on the Refresh button
AdminRefresh(a) ==
    /\ adminList' = [adminList EXCEPT ![a] = fetchMissedShiftsNewestFirst(store)]
    /\ UNCHANGED <<extractVars, now, store, sessionVars, sweepVars, othersWrote>>

\* the Override button of a listed row: overrideMissedToVerified, then the list
\* is rendered again
AdminOverride(a, k) ==
    /\ k \in adminList[a]
    /\ LET st == upsertAttendance(store, k, overridePayload(ADMIN_NAME, now))
       IN  /\ store' = st
           /\ adminList' = [adminList EXCEPT ![a] = fetchMissedShiftsNewestFirst(st)]
    /\ othersWrote' = TRUE
    /\ UNCHANGED <<extractVars, now, sessionVars, sweepVars>>

\* ------------------------------------------------------------------------
\* the sweep scripts
\* ------------------------------------------------------------------------
shiftKeysOf(ss) == [i \in 1..Len(ss) |-> keyOf(ss[i])]

\* a plausible slip: the comparison of the grace test is turned around
startedAndExpiredReversed(t) == SelectSeq(allShifts, LAMBDA s : t < s.start + GRACE_MS)
\* pre-checking script: now > start + GRACE_MS
startedAndExpired(t) == SelectSeq(allShifts, LAMBDA s : t > s.start + GRACE_MS)
\* blind script: start <= now
started(t) == SelectSeq(allShifts, LAMBDA s : s.start <= t)

RECURSIVE seqMin(_)
seqMin(xs) ==
    IF Len(xs) = 1 THEN xs[1]
    ELSE LET m == seqMin(Tail(xs)) IN IF xs[1] < m THEN xs[1] ELSE m
RECURSIVE seqMax(_)
seqMax(xs) ==
    IF Len(xs) = 1 THEN xs[1]
    ELSE LET m == seqMax(Tail(xs)) IN IF xs[1] > m THEN xs[1] ELSE m

\* a plausible slip: the range read with gt / lt, leaving out its two ends
existingKeysOpenRange(st, cands) ==
    LET earliestStart == seqMin([i \in 1..Len(cands) |-> cands[i].start])
        latestEnd == seqMax([i \in 1..Len(cands) |-> cands[i].end])
    IN  { shiftKey(k[1], k[2], k[3]) : k \in
            { r \in DOMAIN st :
                st[r] # Absent /\ r[2] > earliestStart /\ r[3] < latestEnd } }

\* the bulk read: shift_start=gte.earliestStart & shift_end=lte.latestEnd
existingKeys(st, cands) ==
    LET earliestStart == seqMin([i \in 1..Len(cands) |-> cands[i].start])
        latestEnd == seqMax([i \in 1..Len(cands) |-> cands[i].end])
    IN  { shiftKey(k[1], k[2], k[3]) : k \in
            { r \in DOMAIN st :
                st[r] # Absent /\ r[2] >= earliestStart /\ r[3] <= latestEnd } }

\* the payload: candidates whose key the read did not return
precheckPayload(existing, cands) ==
    SelectSeq(shiftKeysOf(cands), LAMBDA k : k \notin existing)

firstChunk(payload) ==
    SubSeq(payload, 1, IF Len(payload) < chunkSize THEN Len(payload) ELSE chunkSize)
afterChunk(payload) ==
    SubSeq(payload, chunkSize + 1, Len(payload))
seqRange(xs) == { xs[i] : i \in 1..Len(xs) }

sweepRuns == sweepPc \in {"read", "write"}

\* pre-checking script, main() up to the bulk read.  With no candidate,
\* Math.min() of nothing is Infinity and toISOString throws: exit 1.
SweepStart ==
    /\ ~sweepRuns
    /\ sweepVariant' = "precheck"
    /\ sweepNow' = now
    /\ sweepHasRead' = FALSE
    /\ sweepExisting' = {}
    /\ sweepPayload' = <<>>
    /\ sweepSent' = 0
    /\ sweepRepeat' = (sweepPc = "done" /\ sweepVariant = "precheck"
                        /\ sweepNow = now /\ ~othersWrote)
    /\ othersWrote' = FALSE
    /\ sweepPc' = IF startedAndExpired(now) = <<>> THEN "failed" ELSE "read"
    /\ UNCHANGED <<extractVars, now, store, sessionVars, adminList>>

\* the bulk read answers: existingKeys, the payload; an empty payload ends the run
SweepRead ==
    /\ sweepPc = "read"
    /\ LET existing == existingKeys(store, startedAndExpired(sweepNow))
           payload == precheckPayload(existing, startedAndExpired(sweepNow))
       IN  /\ sweepHasRead' = TRUE
           /\ sweepExisting' = existing
           /\ sweepPayload' = payload
           /\ sweepPc' = IF payload = <<>> THEN "done" ELSE "write"
    /\ UNCHANGED <<extractVars, now, store, sessionVars, adminList,
                   sweepVariant, sweepNow, sweepSent, sweepRepeat, othersWrote>>

\* blind script, main() up to its first POST: no read
BlindSweepStart ==
    /\ ~sweepRuns
    /\ sweepVariant' = "blind"
    /\ sweepNow' = now
    /\ sweepHasRead' = FALSE
    /\ sweepExisting' = {}
    /\ sweepPayload' = shiftKeysOf(started(now))
    /\ sweepSent' = 0
    /\ sweepRepeat' = (sweepPc = "done" /\ sweepVariant = "blind"
                        /\ sweepNow = now /\ ~othersWrote)
    /\ othersWrote' = FALSE
    /\ sweepPc' = IF started(now) = <<>> THEN "done" ELSE "write"
    /\ UNCHANGED <<extractVars, now, store, sessionVars, adminList>>

\* one chunk is POSTed and merged (either script)
SweepWriteChunk ==
    /\ sweepPc = "write"
    /\ LET chunk == firstChunk(sweepPayload)
           rest == afterChunk(sweepPayload)
       IN  /\ store' = mergeDuplicates(store, seqRange(chunk))
           /\ sweepPayload' = rest
           /\ sweepSent' = sweepSent + Len(chunk)
           /\ sweepPc' = IF rest = <<>> THEN "done" ELSE "write"
    /\ UNCHANGED <<extractVars, now, sessionVars, adminList, sweepVariant,
                   sweepNow, sweepHasRead, sweepExisting, sweepRepeat, othersWrote>>

\* a plausible slip: the failure is caught inside the loop and the run goes on
\* with the next chunk
SweepFailSwallowed ==
    /\ sweepPc = "write"
    /\ sweepPayload' = afterChunk(sweepPayload)
    /\ sweepPc' = IF afterChunk(sweepPayload) = <<>> THEN "done" ELSE "write"
    /\ UNCHANGED <<extractVars, now, store, sessionVars, adminList, sweepVariant,
                   sweepNow, sweepHasRead, sweepExisting, sweepSent, sweepRepeat,
                   othersWrote>>

\* a storage call of the run fails: supaFetch throws, main rejects, exit 1
SweepFail ==
    /\ sweepRuns
    /\ sweepPc' = "failed"
    /\ sweepPayload' = <<>>
    /\ UNCHANGED <<extractVars, now, store, sessionVars, adminList, sweepVariant,
                   sweepNow, sweepHasRead, sweepExisting, sweepSent, sweepRepeat,
                   othersWrote>>

\* ------------------------------------------------------------------------
\* Specifications
\* ------------------------------------------------------------------------
\* the steps of one open page
SessionStep(s) ==
    \/ Login(s)
    \/ Reload(s)
    \/ RenderTimer(s)
    \/ MarkMissedOk(s)
    \/ MarkMissedFail(s)
    \/ \E k \in Keys : VerifyClick(s, k)
    \/ \E r \in Readings : VerifyRejected(s, r)
    \/ \E r \in Readings : VerifyOk(s, r)
    \/ \E r \in Readings : VerifyUpsertFail(s, r)
ClientStep == \E s \in Sessions : SessionStep(s)

AdminStep ==
    \/ \E a \in AdminSessions : AdminRefresh(a)
    \/ \E a \in AdminSessions, k \in Keys : AdminOverride(a, k)

SweepStep ==
    \/ SweepStart
    \/ SweepRead
    \/ BlindSweepStart
    \/ SweepWriteChunk
    \/ SweepFail

\* every actor, one shift
Init == ScheduleInit(OneShiftRows)
Next ==
    \/ Tick
    \/ ClientStep
    \/ AdminStep
    \/ SweepStep
Spec == Init /\ [][Next]_vars

\* one page, the admin and the sweep, one shift; the sweep is run again and
\* again (the workflow's schedule) and none of its storage calls fails
NextLive ==
    \/ Tick
    \/ SessionStep("s1")
    \/ AdminStep
    \/ SweepStart
    \/ SweepRead
    \/ BlindSweepStart
    \/ SweepWriteChunk
SpecLive ==
    /\ Init
    /\ [][NextLive]_vars
    /\ WF_vars(SweepStart)
    /\ WF_vars(SweepRead)
    /\ WF_vars(SweepWriteChunk)

\* the sweep scripts and the admin, two shifts
InitTwoShifts == ScheduleInit(TwoShiftRows)
NextSweep ==
    \/ Tick
    \/ AdminStep
    \/ SweepStep
SpecSweep == InitTwoShifts /\ [][NextSweep]_vars

\* two admin pages and the sweep, two shifts
NextAdmins ==
    \/ Tick
    \/ SweepStep
    \/ \E a \in AdminPages : AdminRefresh(a)
    \/ \E a \in AdminPages, k \in Keys : AdminOverride(a, k)
SpecAdmins == InitTwoShifts /\ [][NextAdmins]_vars

\* one client page alone, two shifts, with its week buttons
NextClient ==
    \/ Tick
    \/ SessionStep("s1")
    \/ NextWeekClick("s1")
    \/ PrevWeekClick("s1")
SpecClient == InitTwoShifts /\ [][NextClient]_vars


\* ------------------------------------------------------------------------
\* Properties
\* ------------------------------------------------------------------------
startOf(k) == k[2]
inWindow(k, t) == startOf(k) - t > 0 /\ startOf(k) - t <= fifteenMin

\* C1: no step of any actor changes a key's stored status from verified to
\* missed.
C1_NoVerifiedToMissed ==
    [][\A k \in Keys :
          store[k].status = "verified" => store'[k].status # "missed"]_vars

\* C2: a verified row that is in the table when the pre-checking sweep POSTs
\* its payload (so written after that run's bulk read, which did not return
\* its key) is still verified, with the same verified_at, after the POST.
C2_SweepKeepsLateVerified ==
    [][(sweepVariant = "precheck" /\ SweepWriteChunk) =>
          \A k \in Keys :
             store[k].status = "verified" =>
                /\ store'[k].status = "verified"
                /\ store'[k].verified_at = store[k].verified_at]_vars

\* C3: a sweep run that follows a completed run of the same script at the same
\* clock reading, with no client or admin write since, POSTs no row (and so
\* leaves the table as the first run left it).
C3_SecondRunSendsNothing ==
    (sweepRepeat /\ ~othersWrote) => sweepSent = 0

\* C4: an admin override leaves the row verified, overridden, override_by the
\* admin's name; and a POST of a sweep run that began after the override
\* (no client or admin write since the run began) leaves such a row as it is.
C4_OverrideSurvivesSweep ==
    [][/\ \A a \in AdminSessions, k \in Keys :
             AdminOverride(a, k) =>
                /\ store'[k].status = "verified"
                /\ store'[k].overridden
                /\ store'[k].override_by = ADMIN_NAME
       /\ (SweepWriteChunk /\ ~othersWrote) =>
             \A k \in Keys :
                (store[k].status = "verified" /\ store[k].overridden) =>
                   store'[k] = store[k]]_vars

\* C5: whenever a check-in writes its verified row, the clock is inside the
\* shift's window (0 < start - now <= 15 min) and the reading is within
\* MAX_DISTANCE_METERS; in particular never at or after the shift's start.
C5_CheckInOnlyInWindow ==
    [][\A s \in Sessions, r \in Distances :
          VerifyOk(s, r) =>
             /\ inWindow(verifying[s], now)
             /\ r <= MAX_DISTANCE_METERS]_vars

\* C6: a missed write (the client's loop, a sweep's POST) applied to a key
\* that already has a row leaves that row unchanged in every column.
C6_MissedWriteKeepsExisting ==
    [][/\ \A s \in Sessions :
             MarkMissedOk(s) =>
                LET k == keyOf(Head(toMarkMissed[s]))
                IN  store[k] # Absent => store'[k] = store[k]
       /\ SweepWriteChunk =>
             \A k \in seqRange(firstChunk(sweepPayload)) :
                store[k] # Absent => store'[k] = store[k]]_vars

\* C7: a sweep run that is about to POST has read the existing rows, and
\* every key of its payload was absent from that read.
C7_SweepReadsBeforeWriting ==
    sweepPc = "write" =>
       /\ sweepHasRead
       /\ \A k \in seqRange(sweepPayload) : k \notin sweepExisting

\* C8: every step that takes a key's stored status from missed to verified
\* leaves the row overridden, with override_by and override_at set (so it is
\* the admin override, never a check-in).
C8_MissedToVerifiedOnlyByOverride ==
    [][\A k \in Keys :
          (store[k].status = "missed" /\ store'[k].status = "verified") =>
             /\ store'[k].overridden
             /\ store'[k].override_by # ""
             /\ store'[k].override_at # Null
             /\ \A s \in Sessions, r \in Distances : ~VerifyOk(s, r)]_vars

\* C9: for a loaded timeline of at least 2 samples, the shifts built are in
\* ascending start order, pairwise disjoint as half-open intervals, and each
\* has start < end.
C9_ShiftsSortedDisjointNonEmpty ==
    (xpc = "built" /\ Len(loaded.timeline) >= 2) =>
       /\ \A i \in 1..Len(shifts) : shifts[i].start < shifts[i].end
       /\ \A i, j \in 1..Len(shifts) :
             i < j =>
                /\ shifts[i].start <= shifts[j].start
                /\ shifts[i].end <= shifts[j].start

\* the maximal runs of true samples of person p, by the index of their first
\* sample, and the index of a run's last sample
runStarts(tl, p) ==
    { a \in 1..Len(tl) : tl[a].flags[p] /\ (a = 1 \/ ~tl[a - 1].flags[p]) }
runLast(tl, p, a) ==
    CHOOSE b \in a..Len(tl) :
        /\ \A j \in a..b : tl[j].flags[p]
        /\ b = Len(tl) \/ ~tl[b + 1].flags[p]
\* the i-th smallest element of a set of numbers
nth(S, i) == CHOOSE a \in S : Cardinality({ b \in S : b < a }) = i - 1

\* C10 as written: one shift per maximal run of true samples, from the run's
\* first sample to the first false sample after it; none under 2 samples.
C10_OneShiftPerRun ==
    xpc = "built" =>
       LET tl == loaded.timeline
           S == runStarts(tl, "Alex")
       IN  IF Len(tl) < 2 THEN shifts = <<>>
           ELSE /\ Len(shifts) = Cardinality(S)
                /\ \A i \in 1..Len(shifts) :
                      LET a == nth(S, i)
                          b == runLast(tl, "Alex", a)
                      IN  /\ shifts[i].start = tl[a].time
                          /\ b < Len(tl) => shifts[i].end = tl[b + 1].time

\* C10 amended: one shift per maximal run that begins before the final
\* sample, from the run's first sample to the first false sample after it,
\* or to the final sample when the run lasts to the end; a run that is the
\* final sample alone gives no shift; no shifts under 2 samples.
C10_OneShiftPerRunBeforeLast ==
    xpc = "built" =>
       LET tl == loaded.timeline
           S == { a \in runStarts(tl, "Alex") : a < Len(tl) }
       IN  IF Len(tl) < 2 THEN shifts = <<>>
           ELSE /\ Len(shifts) = Cardinality(S)
                /\ \A i \in 1..Len(shifts) :
                      LET a == nth(S, i)
                          b == runLast(tl, "Alex", a)
                      IN  shifts[i] =
                            [person |-> "Alex", start |-> tl[a].time,
                             end |-> IF b < Len(tl) THEN tl[b + 1].time
                                     ELSE tl[Len(tl)].time]

\* the documented example has been built: F,T,T,F,T,F at 0,5,..,25 gives (5,15),(20,25)
C10_Witness ==
    /\ xpc = "built"
    /\ rows = ExampleRows
    /\ shifts = << [person |-> "Alex", start |-> 5, end |-> 15],
                   [person |-> "Alex", start |-> 20, end |-> 25] >>

\* the first sample of the run of true samples that reaches the final sample
trailingRunStart(tl, p) ==
    CHOOSE a \in runStarts(tl, p) : runLast(tl, p, a) = Len(tl)

\* C11 as written: when the flag is true at the final sample there is a shift
\* for the trailing run, from the run's first sample to the final sample's
\* instant, also when the run is the final sample alone.
C11_TrailingRunAlwaysClosed ==
    (xpc = "built" /\ Len(loaded.timeline) >= 1
        /\ ~loaded.timeline[Len(loaded.timeline)].isNull
        /\ loaded.timeline[Len(loaded.timeline)].flags["Alex"]) =>
       LET tl == loaded.timeline
       IN  /\ shifts # <<>>
           /\ shifts[Len(shifts)] =
                 [person |-> "Alex",
                  start |-> tl[trailingRunStart(tl, "Alex")].time,
                  end |-> tl[Len(tl)].time]

\* C11 amended: when the flag is true at the final sample and the trailing run
\* begins before the final sample, the last shift runs from the run's first
\* sample to the final sample's instant; when the run is the final sample
\* alone it adds no shift: there is one shift per earlier run.
C11_TrailingRunClosedAtFinal ==
    (xpc = "built" /\ Len(loaded.timeline) >= 1
        /\ ~loaded.timeline[Len(loaded.timeline)].isNull
        /\ loaded.timeline[Len(loaded.timeline)].flags["Alex"]) =>
       LET tl == loaded.timeline
           a == trailingRunStart(tl, "Alex")
       IN  IF a < Len(tl)
           THEN /\ shifts # <<>>
                /\ shifts[Len(shifts)] =
                      [person |-> "Alex", start |-> tl[a].time,
                       end |-> tl[Len(tl)].time]
           ELSE Len(shifts) = Cardinality(runStarts(tl, "Alex")) - 1

\* a trailing run of two or more samples has been closed at the final sample
C11_Witness ==
    /\ xpc = "built"
    /\ Len(loaded.timeline) >= 3
    /\ loaded.timeline[Len(loaded.timeline)].flags["Alex"]
    /\ loaded.timeline[Len(loaded.timeline) - 1].flags["Alex"]
    /\ ~loaded.timeline[Len(loaded.timeline) - 2].flags["Alex"]
    /\ shifts # <<>>
    /\ shifts[Len(shifts)].end = loaded.timeline[Len(loaded.timeline)].time
    /\ shifts[Len(shifts)].end > shifts[Len(shifts)].start

\* C12: week 0 starts at the anchor, and the page after a displayed page
\* starts at the instant the displayed page ends.
C12_WeekPagesContiguous ==
    \A s \in Sessions :
       (anchorDate # Null /\ loggedIn[s]) =>
          /\ getWeekBounds(anchorDate, 0).start = anchorDate
          /\ weekBounds[s] = getWeekBounds(anchorDate, weekIndex[s])
          /\ getWeekBounds(anchorDate, weekIndex[s] + 1).start = weekBounds[s].end

\* the number of rows whose Time cell the parser accepts
RECURSIVE goodRows(_)
goodRows(rs) ==
    IF rs = <<>> THEN 0
    ELSE (IF parseLocalTimeToDate(Head(rs).Time) = Null THEN 0 ELSE 1) + goodRows(Tail(rs))

\* C13: a load of a table with rows does not fail, and its timeline holds one
\* sample per row whose time parses and nothing for a row whose time does not.
C13_BadRowsDropped ==
    (xpc # "rows" /\ rows # <<>>) =>
       /\ xpc # "failed"
       /\ loaded.ok
       /\ Len(loaded.timeline) = goodRows(rows)
       /\ \A i \in 1..Len(loaded.timeline) : ~loaded.timeline[i].isNull

\* C14: a loaded timeline is in ascending order of instant and no two of its
\* samples have the same instant.
C14_TimelineSortedNoDuplicates ==
    (xpc \in {"loaded", "built"} /\ loaded.ok) =>
       \A i, j \in 1..Len(loaded.timeline) :
          i < j => loaded.timeline[i].time < loaded.timeline[j].time

\* C15: every row a sweep run POSTs is for a shift that started more than the
\* grace period before the run's clock reading.
C15_SweepWritesOnlyAfterGrace ==
    [][SweepWriteChunk =>
          \A k \in seqRange(firstChunk(sweepPayload)) :
             sweepNow - startOf(k) > GRACE_MS]_vars

\* the record a missed write leaves for a key that had none
MissedRow == [Absent EXCEPT !.status = "missed"]

\* C16: the store has one record per key; a client missed write and a sweep
\* missed write for a key that had no record, or only the other's missed
\* record, both leave the same record, with status missed, in either order.
C16_MissedRaceSameRecord ==
    [][/\ DOMAIN store' = Keys
       /\ \A s \in Sessions :
             MarkMissedOk(s) =>
                LET k == keyOf(Head(toMarkMissed[s]))
                IN  store[k] \in {Absent, MissedRow} => store'[k] = MissedRow
       /\ SweepWriteChunk =>
             \A k \in seqRange(firstChunk(sweepPayload)) :
                store[k] \in {Absent, MissedRow} => store'[k] = MissedRow]_vars

\* a sweep run has POSTed a key that a client wrote missed while the run was
\* under way, and the key holds the missed record
C16_Witness ==
    /\ sweepPc = "done"
    /\ sweepSent > 0
    /\ othersWrote
    /\ \E k \in Keys : store[k] = MissedRow
    /\ \E s \in Sessions, k \in Keys : attendanceMap[s][k] = "missed"

\* the keys of the one-shift timetable
OneShiftKeys == keysOf(buildShiftsForPerson(loadScheduleCSV(OneShiftRows).timeline, "Alex"))

\* C17: with the sweep run again and again and its storage calls succeeding,
\* a shift whose start is more than the grace period in the past and that has
\* no record eventually has one.
C17_ExpiredShiftsGetRecorded ==
    \A k \in OneShiftKeys :
       (now - startOf(k) > GRACE_MS /\ store[k] = Absent) ~> (store[k] # Absent)

\* a pre-checking run has written the record of an expired shift
C17_Witness ==
    /\ sweepVariant = "precheck"
    /\ sweepPc = "done"
    /\ sweepSent > 0
    /\ \E k \in Keys : now - startOf(k) > GRACE_MS /\ store[k].status = "missed"

\* C18: a chunk POST that fails ends the run as failed (exit 1) and leaves the
\* table as the earlier chunks left it; a failed run POSTs nothing more.
C18_FailedChunkEndsRun ==
    [][/\ (sweepPc = "write" /\ SweepFail) =>
             /\ sweepPc' = "failed"
             /\ sweepPayload' = <<>>
             /\ store' = store
       /\ sweepPc = "failed" => ~SweepWriteChunk]_vars

\* a run has failed on its second chunk: the first chunk's record is in the
\* table, the second shift has none
C18_Witness ==
    /\ sweepPc = "failed"
    /\ sweepSent = chunkSize
    /\ \E k \in Keys : store[k].status = "missed"
    /\ \E k \in Keys : store[k] = Absent /\ sweepNow - startOf(k) > GRACE_MS

\* C19: a check-in whose location read fails, or whose reading is farther
\* than MAX_DISTANCE_METERS, changes neither the table nor any session's
\* attendance map.
C19_RejectedCheckInWritesNothing ==
    [][\A s \in Sessions, r \in Readings :
          (r = LocationError \/ r > MAX_DISTANCE_METERS) =>
             ((VerifyRejected(s, r) \/ VerifyOk(s, r) \/ VerifyUpsertFail(s, r)) =>
                 /\ store' = store
                 /\ attendanceMap' = attendanceMap)]_vars

\* a check-in has just been turned down as too far away, and the shift has
\* no record
C19_Witness ==
    \E s \in Sessions :
       /\ toast[s] = "notClose"
       /\ verifying[s] = NoKey
       /\ \E k \in verifyButtons[s] : store[k] = Absent

\* C20: the timer's render never queues the missed write of a key whose
\* missed write has failed on that page.
C20_FailedWriteNotRetried ==
    [][\A s \in Sessions :
          RenderTimer(s) =>
             \A k \in failedMissed[s] : k \notin keysOf(toMarkMissed'[s])]_vars

\* C21: every stored record with overridden = TRUE has status verified, an
\* override_by and an override_at; overridden never goes with status missed.
C21_OverriddenImpliesVerified ==
    \A k \in DOMAIN store :
        (store[k] # Absent /\ store[k].overridden = TRUE) =>
            /\ store[k].status = "verified"
            /\ store[k].override_by # ""
            /\ store[k].override_at # Null

\* C22: weekIndex is an integer >= 0; a previous-week click at index 0 leaves
\* it at 0 and a next-week click increases it by exactly 1.
C22_WeekIndexSteps ==
    [][\A s \in Sessions :
          /\ weekIndex'[s] \in Nat
          /\ (PrevWeekClick(s) /\ weekIndex[s] = 0) => weekIndex'[s] = 0
          /\ NextWeekClick(s) => weekIndex'[s] = weekIndex[s] + 1]_vars

\* the person's shifts, of any week, that have started and have no entry in
\* the map m
startedWithoutEntry(m) ==
    { k \in Keys : startOf(k) <= now /\ m[k] = "unrecorded" }

\* C23: a run of recordMissedShiftsIfNeeded queues a missed write for exactly
\* the shifts of any week that have started and have no entry in the page's
\* map, each once; a successful write puts the key in the map; a failed write
\* leaves the remaining attempts queued.
C23_MissedRunAttemptsExactlyTheUnrecorded ==
    [][\A s \in Sessions :
          /\ (Login(s) \/ RenderTimer(s) \/ NextWeekClick(s) \/ PrevWeekClick(s)) =>
                /\ keysOf(toMarkMissed'[s]) = startedWithoutEntry(attendanceMap'[s])
                /\ Len(toMarkMissed'[s]) = Cardinality(keysOf(toMarkMissed'[s]))
          /\ MarkMissedOk(s) =>
                /\ attendanceMap'[s][keyOf(Head(toMarkMissed[s]))] # "unrecorded"
                /\ toMarkMissed'[s] = Tail(toMarkMissed[s])
          /\ MarkMissedFail(s) =>
                /\ toMarkMissed'[s] = Tail(toMarkMissed[s])
                /\ attendanceMap'[s] = attendanceMap[s]]_vars

\* C23: while week 1 is displayed, the write for one week-0 shift has failed and
\* the write for another week-0 shift is still queued
C23_Witness ==
    /\ weekIndex["s1"] >= 1
    /\ failedMissed["s1"] # {}
    /\ toMarkMissed["s1"] # <<>>
    /\ Head(toMarkMissed["s1"]).end <= weekBounds["s1"].start
    /\ keyOf(Head(toMarkMissed["s1"])) \notin failedMissed["s1"]

\* C24: an admin override changes the table only when the key's row has status
\* missed when the write is applied.
C24_OverrideOnlyRewritesMissed ==
    [][\A a \in AdminPages, k \in Keys :
          (AdminOverride(a, k) /\ store[k].status # "missed") => store'[k] = store[k]]_vars

\* C25: a sweep run that finds no candidate shift completes: it does not fail,
\* writes nothing and reports zero rows.
C25_EmptySweepCompletes ==
    [][/\ (SweepStart /\ startedAndExpired(now) = <<>>) =>
             (sweepPc' = "done" /\ sweepSent' = 0 /\ store' = store)
       /\ (BlindSweepStart /\ started(now) = <<>>) =>
             (sweepPc' = "done" /\ sweepSent' = 0 /\ store' = store)]_vars

\* the key of a client shift with its instants counted in seconds, as the
\* sweep's are: equal triples are equal ISO texts
keyInSeconds(k) == <<k[1], k[2] * SecondsPerMinute, k[3] * SecondsPerMinute>>

\* C26: for a timetable whose Time cells all parse, the client and the sweep
\* derive the same set of shift keys.
C26_ClientAndSweepKeysAgree ==
    (xpc = "built" /\ \A i \in 1..Len(rows) : rows[i].Time.ok) =>
        { keyInSeconds(k) : k \in keysOf(shifts) } = keysOf(sweepAllShifts(rows))

\* C27: when the pre-checking run's bulk read answers, every candidate shift
\* that has a row in the table is among the keys read and is left out of the
\* payload.
C27_RecordedCandidatesExcluded ==
    [][SweepRead =>
          \A i \in 1..Len(startedAndExpired(sweepNow)) :
             LET k == keyOf(startedAndExpired(sweepNow)[i])
             IN  store[k] # Absent =>
                    /\ k \in sweepExisting'
                    /\ k \notin seqRange(sweepPayload')]_vars

\* C27: a read has found the row of one candidate and none for another
C27_Witness ==
    /\ sweepVariant = "precheck"
    /\ sweepPc = "write"
    /\ sweepHasRead
    /\ \E k \in keysOf(startedAndExpired(sweepNow)) :
          k \in sweepExisting /\ k \notin seqRange(sweepPayload)
    /\ sweepPayload # <<>>

\* the shifts renderCurrentWeek lists on page i of the loaded timetable
weekShifts(i) ==
    LET w == getWeekBounds(loaded.timeline[1].time, i)
    IN  filterShiftsInRange(shifts, w.start, w.end)

\* C28: every shift built for the person is listed on some week page i >= 0,
\* the anchor being the first instant of the timeline.
C28_EveryShiftOnSomePage ==
    xpc = "built" =>
        \A n \in 1..Len(shifts) :
            \E i \in 0..MaxWeek : shifts[n] \in seqRange(weekShifts(i))

====
